---- MODULE Spec2Model ----
(***************************************************************************)
(* Model of ServerManager (src/server_manager.py): the liveness check on   *)
(* the PID file, start_server, stop_server and get_server_status of one    *)
(* configured server, together with the operating system's process table.  *)
(* A call is a sequence of steps of one caller; between two steps the      *)
(* processes of the table may exit, be reaped, or take a free PID.         *)
(***************************************************************************)
EXTENDS Integers, FiniteSets, Sequences, TLC

\* ---------------------------------------------------------------- bounds
MaxPid == 2             \* PIDs of the process table are 1..MaxPid
MaxLogs == 2            \* console logs (launch attempts) created in a run

\* ------------------------------------------------------------- constants
MaxPolls == 30          \* for _ in range(30)
NoFile == 0             \* the file does not exist
Garbage == -1           \* the file exists, its content is empty or cut short

MaxLines == 3           \* lines a console log grows to
ErrorLine == 0          \* the line "Error reading console: ..."
MaxClock == 1           \* seconds the wall clock advances in a run

Pids == 1..MaxPid
Threads == {1, 2}       \* callers of the manager (request handlers)
Callers == {1}          \* the callers of the non-overlapping executions
ServerIds == {"alpha", "ghost"}
Configured == {"alpha"} \* get_server(server_id) is not None

VARIABLES
    ptab,       \* process table: PID -> "free" | "child" | "childZ" | "other"
    pidFile,    \* <path>/server.pid : NoFile | Garbage | a PID
    ptrFile,    \* <path>/current.log: NoFile | Garbage | number of a log
    logs,       \* number of console_<timestamp>.log files created
    jar,        \* <path>/<jar> exists
    call,       \* per caller: the call in progress, or the last one made
    believed,   \* history: the most recent start returned success, and no
                \* stop returned success and no liveness check false since
    tracked,    \* history: a start returned success and no start or stop
                \* call began since
    launched,   \* history: PID of the process that start launched, while
                \* that process is in the table (0 once it has left it)
    dir,        \* the server's directory <path> exists
    extra,      \* the other files of <path>, besides those above
    logText,    \* content of the console logs: number of the log -> lines
    backups,    \* the directories of the backups root
    clock       \* the second that datetime.now() shows

\* the state that the start/stop life cycle leaves alone
aux == <<extra, logText, backups, clock>>

vars == <<ptab, pidFile, ptrFile, logs, jar, call, believed, tracked, launched,
          dir, extra, logText, backups, clock>>

IdleCall ==
    [op |-> "none", sid |-> "none", pc |-> "idle", result |-> "none",
     exc |-> "none", seen |-> "none", live |-> FALSE, pid |-> 0, polls |-> 0,
     prePid |-> NoFile, prePtr |-> NoFile, preLogs |-> 0,
     log |-> 0, spawnPid |-> 0, inst |-> 0, term |-> FALSE, kill |-> FALSE,
     removed |-> NoFile,
     n |-> 0, text |-> <<>>, out |-> <<>>, before |-> {}]

NewCall(o, s) ==
    [IdleCall EXCEPT !.op = o, !.sid = s, !.prePid = pidFile,
                     !.prePtr = ptrFile, !.preLogs = logs]

\* the call returns r to its caller
Return(c, r) == [c EXCEPT !.pc = "idle", !.result = r, !.polls = 0]
\* the call ends with an exception raised at place x and caught
Fail(c, x) == [c EXCEPT !.pc = "idle", !.result = "error", !.exc = x, !.polls = 0]
\* the call ends with an exception that propagates to the caller
Raise(c, x) == [c EXCEPT !.pc = "idle", !.result = "raise", !.exc = x, !.polls = 0]

Init ==
    /\ ptab \in [Pids -> {"free", "other"}]
    /\ pidFile = NoFile
    /\ ptrFile = NoFile
    /\ logs = 0
    /\ jar \in BOOLEAN
    /\ call = [t \in Threads |-> IdleCall]
    /\ believed = FALSE
    /\ tracked = FALSE
    /\ launched = 0
    /\ dir \in BOOLEAN
    /\ jar => dir
    /\ extra = {}
    /\ logText = [k \in 1..MaxLogs |-> <<>>]
    /\ backups = {}
    /\ clock = 0

\* ------------------------------------------------------ the process table
\* the process of PID p leaves the table: histories that follow it forget it
Forget(c, p) == IF c.inst = p THEN [c EXCEPT !.inst = 0] ELSE c
ForgetAll(p) ==
    /\ call' = [t \in Threads |-> Forget(call[t], p)]
    /\ launched' = IF launched = p THEN 0 ELSE launched

\* a process exits: a child of the manager stays as a zombie until it is
\* reaped, or leaves the table at once when it was reparented
ProcExit(p) ==
    /\ ptab[p] \in {"child", "other"}
    /\ \/ /\ ptab[p] = "child"
          /\ ptab' = [ptab EXCEPT ![p] = "childZ"]
          /\ UNCHANGED <<call, launched>>
       \/ /\ ptab' = [ptab EXCEPT ![p] = "free"]
          /\ ForgetAll(p)
    /\ UNCHANGED <<pidFile, ptrFile, logs, jar, believed, tracked>>
    /\ UNCHANGED <<dir, aux>>

Reap(p) ==
    /\ ptab[p] = "childZ"
    /\ ptab' = [ptab EXCEPT ![p] = "free"]
    /\ ForgetAll(p)
    /\ UNCHANGED <<pidFile, ptrFile, logs, jar, believed, tracked>>
    /\ UNCHANGED <<dir, aux>>

\* an unrelated process is created and gets a free PID
OtherSpawn(p) ==
    /\ ptab[p] = "free"
    /\ ptab' = [ptab EXCEPT ![p] = "other"]
    /\ UNCHANGED <<pidFile, ptrFile, logs, jar, call, believed, tracked, launched>>
    /\ UNCHANGED <<dir, aux>>

\* ------------------------------------------------------------- is_running
\* what lines 71-77 find for the content f of the PID file
Probe(f) == IF f = NoFile THEN "nofile"
            ELSE IF f = Garbage THEN "garbage" ELSE ptab[f]

IsAliveNoZombieTest(st) == st \in {"child", "childZ", "other"}
\* psutil.pid_exists(pid) and proc.is_running() and status != STATUS_ZOMBIE
IsAlive(st) == st \in {"child", "other"}

\* psutil.pid_exists(pid)
PidExists(p) == ptab[p] # "free"

\* history: the process that the last successful start launched is alive
LaunchedAlive == launched # 0 /\ ptab[launched] = "child"

AfterStartUnguarded(c, v) ==
    CASE c.op = "is_running" -> Return(c, IF v THEN "true" ELSE "false")
      [] c.op = "status"     -> Return(c, IF v THEN "true" ELSE "false")
      [] c.op = "start"      -> [c EXCEPT !.pc = "st_launch"]
      [] c.op = "stop"       -> IF v THEN [c EXCEPT !.pc = "sp_read"]
                                ELSE Return(c, "notrunning")

AfterStopUnguarded(c, v) ==
    CASE c.op = "is_running" -> Return(c, IF v THEN "true" ELSE "false")
      [] c.op = "status"     -> Return(c, IF v THEN "true" ELSE "false")
      [] c.op = "start"      -> IF v THEN Return(c, "already")
                                ELSE [c EXCEPT !.pc = "st_launch"]
      [] c.op = "stop"       -> [c EXCEPT !.pc = "sp_read"]

\* the caller's code after is_running returned v: lines 94-95 of
\* start_server, lines 157-158 of stop_server, line 207 of get_server_status
AfterSerialized(c, v) ==
    CASE c.op = "is_running" -> Return(c, IF v THEN "true" ELSE "false")
      [] c.op = "status"     -> Return(c, IF v THEN "true" ELSE "false")
      [] c.op = "start"      ->
            IF v \/ \E u \in Threads :
                      /\ call[u].op = "start"
                      /\ call[u].pc \in {"st_launch", "st_pid", "st_ptr"}
            THEN Return(c, "already")
            ELSE [c EXCEPT !.pc = "st_launch"]
      [] c.op = "stop"       -> IF v THEN [c EXCEPT !.pc = "sp_read"]
                                ELSE Return(c, "notrunning")

After(c, v) ==
    CASE c.op = "is_running" -> Return(c, IF v THEN "true" ELSE "false")
      [] c.op = "status"     -> Return(c, IF v THEN "true" ELSE "false")
      [] c.op = "start"      -> IF v THEN Return(c, "already")
                                ELSE [c EXCEPT !.pc = "st_launch"]
      [] c.op = "stop"       -> IF v THEN [c EXCEPT !.pc = "sp_read"]
                                ELSE Return(c, "notrunning")

BelievedAfter(c, v) ==
    IF ~v THEN FALSE ELSE IF c.op = "start" THEN FALSE ELSE believed

NotFoundAlwaysFlag(c) ==
    CASE c.op = "is_running" -> Return(c, "false")
      [] c.op = "status"     -> Return(c, "null")
      [] OTHER               -> Return(c, "notfound")

NotFound(c) ==
    CASE c.op = "is_running" -> Return(c, "false")
      [] c.op \in {"status", "console"} -> Return(c, "null")
      [] OTHER               -> Return(c, "notfound")

\* lines 62-80 of is_running, at the head of the call c of caller t
Check(t, c) ==
    IF c.sid \notin Configured
    THEN /\ call' = [call EXCEPT ![t] = NotFound(c)]
         /\ UNCHANGED believed
    ELSE IF pidFile = NoFile
    THEN /\ call' = [call EXCEPT ![t] =
                After([c EXCEPT !.seen = "nofile", !.live = LaunchedAlive], FALSE)]
         /\ believed' = BelievedAfter(c, FALSE)
    ELSE \/ /\ call' = [call EXCEPT ![t] = Raise(c, "ir_read")]
            /\ UNCHANGED believed
         \/ LET s == Probe(pidFile)
                d == [c EXCEPT !.seen = s, !.live = LaunchedAlive]
            IN  IF IsAlive(s)
                THEN /\ call' = [call EXCEPT ![t] = After(d, TRUE)]
                     /\ believed' = BelievedAfter(c, TRUE)
                ELSE /\ call' = [call EXCEPT ![t] = [d EXCEPT !.pc = "ir_clean"]]
                     /\ UNCHANGED believed

IsRunning(t, sid) ==
    /\ call[t].pc = "idle"
    /\ Check(t, NewCall("is_running", sid))
    /\ UNCHANGED <<ptab, pidFile, ptrFile, logs, jar, tracked, launched>>
    /\ UNCHANGED <<dir, aux>>

GetServerStatus(t, sid) ==
    /\ call[t].pc = "idle"
    /\ Check(t, NewCall("status", sid))
    /\ UNCHANGED <<ptab, pidFile, ptrFile, logs, jar, tracked, launched>>
    /\ UNCHANGED <<dir, aux>>

StartServer(t, sid) ==
    /\ call[t].pc = "idle"
    /\ logs < MaxLogs
    /\ Check(t, NewCall("start", sid))
    /\ tracked' = (tracked /\ sid \notin Configured)
    /\ launched' = IF sid \in Configured THEN 0 ELSE launched
    /\ UNCHANGED <<ptab, pidFile, ptrFile, logs, jar>>
    /\ UNCHANGED <<dir, aux>>

StopServer(t, sid) ==
    /\ call[t].pc = "idle"
    /\ Check(t, NewCall("stop", sid))
    /\ tracked' = (tracked /\ sid \notin Configured)
    /\ launched' = IF sid \in Configured THEN 0 ELSE launched
    /\ UNCHANGED <<ptab, pidFile, ptrFile, logs, jar>>
    /\ UNCHANGED <<dir, aux>>

\* lines 82-86: clean up the stale PID file and return False
IrClean(t) ==
    /\ call[t].pc = "ir_clean"
    /\ IF pidFile = NoFile
       THEN /\ call' = [call EXCEPT ![t] = After(call[t], FALSE)]
            /\ believed' = BelievedAfter(call[t], FALSE)
            /\ UNCHANGED pidFile
       ELSE \/ /\ pidFile' = NoFile
               /\ call' = [call EXCEPT ![t] = After(call[t], FALSE)]
               /\ believed' = BelievedAfter(call[t], FALSE)
            \/ /\ call' = [call EXCEPT ![t] = Raise(call[t], "ir_unlink")]
               /\ UNCHANGED <<pidFile, believed>>
    /\ UNCHANGED <<ptab, ptrFile, logs, jar, tracked, launched>>
    /\ UNCHANGED <<dir, aux>>

\* ----------------------------------------------------------- start_server
StLaunchPtrFirst(t) ==
    /\ call[t].pc = "st_launch"
    /\ IF ~dir
       THEN /\ \/ /\ call' = [call EXCEPT ![t] = Raise(call[t], "mkdir")]
                  /\ UNCHANGED dir
               \/ /\ call' = [call EXCEPT ![t] = Return(call[t], "nojar")]
                  /\ dir' = TRUE
            /\ UNCHANGED <<ptab, logs, ptrFile>>
       ELSE IF ~jar
       THEN /\ call' = [call EXCEPT ![t] = Return(call[t], "nojar")]
            /\ UNCHANGED <<ptab, logs, ptrFile, dir>>
       ELSE \/ /\ logs = 0
               /\ call' = [call EXCEPT ![t] = Raise(call[t], "mkdir")]
               /\ UNCHANGED <<ptab, logs, ptrFile, dir>>
            \/ /\ call' = [call EXCEPT ![t] = Fail(call[t], "log")]
               /\ UNCHANGED <<ptab, logs, ptrFile, dir>>
            \/ /\ logs' = logs + 1
               /\ ptrFile' = logs + 1
               /\ call' = [call EXCEPT ![t] = Fail([call[t] EXCEPT !.log = logs + 1], "spawn")]
               /\ UNCHANGED <<ptab, dir>>
            \/ \E p \in Pids :
                 /\ ptab[p] = "free"
                 /\ logs' = logs + 1
                 /\ ptrFile' = logs + 1
                 /\ ptab' = [ptab EXCEPT ![p] = "child"]
                 /\ call' = [call EXCEPT ![t] =
                       [call[t] EXCEPT !.log = logs + 1, !.spawnPid = p,
                                       !.inst = p, !.pc = "st_pid"]]
                 /\ UNCHANGED dir
    /\ UNCHANGED <<pidFile, jar, believed, tracked, launched, aux>>

\* lines 97-134: the server directory (mkdir is outside the try: its failure
\* propagates), the jar test, the logs directory (created with the first
\* log), the log file (open() fails), the launch (Popen fails, or the child
\* gets a free PID)
StLaunch(t) ==
    /\ call[t].pc = "st_launch"
    /\ IF ~dir
       THEN /\ \/ /\ call' = [call EXCEPT ![t] = Raise(call[t], "mkdir")]
                  /\ UNCHANGED dir
               \/ /\ call' = [call EXCEPT ![t] = Return(call[t], "nojar")]
                  /\ dir' = TRUE
            /\ UNCHANGED <<ptab, logs>>
       ELSE IF ~jar
       THEN /\ call' = [call EXCEPT ![t] = Return(call[t], "nojar")]
            /\ UNCHANGED <<ptab, logs, dir>>
       ELSE \/ /\ logs = 0
               /\ call' = [call EXCEPT ![t] = Raise(call[t], "mkdir")]
               /\ UNCHANGED <<ptab, logs, dir>>
            \/ /\ call' = [call EXCEPT ![t] = Fail(call[t], "log")]
               /\ UNCHANGED <<ptab, logs, dir>>
            \/ /\ logs' = logs + 1
               /\ call' = [call EXCEPT ![t] = Fail([call[t] EXCEPT !.log = logs + 1], "spawn")]
               /\ UNCHANGED <<ptab, dir>>
            \/ \E p \in Pids :
                 /\ ptab[p] = "free"
                 /\ logs' = logs + 1
                 /\ ptab' = [ptab EXCEPT ![p] = "child"]
                 /\ call' = [call EXCEPT ![t] =
                       [call[t] EXCEPT !.log = logs + 1, !.spawnPid = p,
                                       !.inst = p, !.pc = "st_pid"]]
                 /\ UNCHANGED dir
    /\ UNCHANGED <<pidFile, ptrFile, jar, believed, tracked, launched, aux>>

StPidUnchecked(t) ==
    /\ call[t].pc = "st_pid"
    /\ \/ /\ call' = [call EXCEPT ![t] = Fail(call[t], "pidfile")]
          /\ UNCHANGED pidFile
       \/ /\ call' = [call EXCEPT ![t] = [call[t] EXCEPT !.pc = "st_ptr"]]
          /\ pidFile' \in {Garbage, call[t].spawnPid}
    /\ UNCHANGED <<ptab, ptrFile, logs, jar, believed, tracked, launched>>
    /\ UNCHANGED <<dir, aux>>

\* lines 137-139: save the PID; open() fails, or the write is cut short
\* (the file is left empty), or the PID is written
StPid(t) ==
    /\ call[t].pc = "st_pid"
    /\ \/ /\ call' = [call EXCEPT ![t] = Fail(call[t], "pidfile")]
          /\ UNCHANGED pidFile
       \/ /\ call' = [call EXCEPT ![t] = Fail(call[t], "pidfile")]
          /\ pidFile' = Garbage
       \/ /\ call' = [call EXCEPT ![t] = [call[t] EXCEPT !.pc = "st_ptr"]]
          /\ pidFile' = call[t].spawnPid
    /\ UNCHANGED <<ptab, ptrFile, logs, jar, believed, tracked, launched>>
    /\ UNCHANGED <<dir, aux>>

\* lines 142-146: save the path of the console log, return success
StPtr(t) ==
    /\ call[t].pc = "st_ptr"
    /\ \/ /\ call' = [call EXCEPT ![t] = Fail(call[t], "ptrfile")]
          /\ UNCHANGED <<ptrFile, believed, tracked, launched>>
       \/ /\ call' = [call EXCEPT ![t] = Fail(call[t], "ptrfile")]
          /\ ptrFile' = Garbage
          /\ UNCHANGED <<believed, tracked, launched>>
       \/ /\ call' = [call EXCEPT ![t] = Return(call[t], "ok")]
          /\ ptrFile' = call[t].log
          /\ believed' = TRUE
          /\ tracked' = TRUE
          /\ launched' = call[t].inst
    /\ UNCHANGED <<ptab, pidFile, logs, jar>>
    /\ UNCHANGED <<dir, aux>>

\* ------------------------------------------------------------ stop_server
\* range(30): the polling loop ends after n probes
LoopEndsOneLate(n) == n >= MaxPolls + 1
LoopEnds(n) == n >= MaxPolls

\* lines 195-196: except Exception: the call returns the failure
StopFailedCleans(t, c, x) ==
    /\ call' = [call EXCEPT ![t] = Fail(c, x)]
    /\ pidFile' = NoFile
StopFailed(t, c, x) ==
    /\ call' = [call EXCEPT ![t] = Fail(c, x)]
    /\ UNCHANGED pidFile

\* lines 164-168: read the PID file, psutil.Process(pid)
SpRead(t) ==
    /\ call[t].pc = "sp_read"
    /\ IF pidFile \notin Pids
       THEN StopFailed(t, call[t], "read")
       ELSE \/ StopFailed(t, call[t], "read")
            \/ IF PidExists(pidFile)
               THEN /\ call' = [call EXCEPT ![t] =
                          [call[t] EXCEPT !.pid = pidFile, !.pc = "sp_term"]]
                    /\ UNCHANGED pidFile
               ELSE StopFailed(t, [call[t] EXCEPT !.pid = pidFile], "probe")
    /\ UNCHANGED <<ptab, ptrFile, logs, jar, believed, tracked, launched>>
    /\ UNCHANGED <<dir, aux>>

\* line 173: os.kill(pid, SIGTERM). A missing process is ProcessLookupError,
\* a process of another user PermissionError; neither is psutil.NoSuchProcess,
\* so the handler of line 186 does not apply and line 195 catches them.
\* The signal is only delivered here: the process ends, if it does, by ProcExit.
SpTerm(t) ==
    /\ call[t].pc = "sp_term"
    /\ \/ /\ ~PidExists(call[t].pid)
          /\ StopFailed(t, call[t], "signal")
       \/ /\ ptab[call[t].pid] = "other"
          /\ StopFailed(t, call[t], "signal")
       \/ /\ PidExists(call[t].pid)
          /\ call' = [call EXCEPT ![t] =
                [call[t] EXCEPT !.term = TRUE, !.pc = "sp_poll"]]
          /\ UNCHANGED pidFile
    /\ UNCHANGED <<ptab, ptrFile, logs, jar, believed, tracked, launched>>
    /\ UNCHANGED <<dir, aux>>

\* lines 176-179: one iteration of the loop, a probe and then a sleep
SpPoll(t) ==
    /\ call[t].pc = "sp_poll"
    /\ LET n == call[t].polls + 1
       IN  call' = [call EXCEPT ![t] =
              [call[t] EXCEPT !.polls = n,
                  !.pc = IF ~PidExists(call[t].pid) \/ LoopEnds(n)
                         THEN "sp_check" ELSE "sp_poll"]]
    /\ UNCHANGED <<ptab, pidFile, ptrFile, logs, jar, believed, tracked, launched>>
    /\ UNCHANGED <<dir, aux>>

\* line 182: if psutil.pid_exists(pid)
SpCheck(t) ==
    /\ call[t].pc = "sp_check"
    /\ call' = [call EXCEPT ![t] =
          [call[t] EXCEPT !.pc = IF PidExists(call[t].pid)
                                 THEN "sp_kill" ELSE "sp_clean"]]
    /\ UNCHANGED <<ptab, pidFile, ptrFile, logs, jar, believed, tracked, launched>>
    /\ UNCHANGED <<dir, aux>>

\* lines 183-184: os.kill(pid, SIGKILL) and one sleep. The killed process is
\* a zombie, or gone, or (uninterruptible) still there after the sleep.
SpKill(t) ==
    /\ call[t].pc = "sp_kill"
    /\ LET p == call[t].pid
           c == [call[t] EXCEPT !.kill = TRUE, !.pc = "sp_clean"]
       IN  \/ /\ ~PidExists(p)
              /\ StopFailed(t, call[t], "signal")
              /\ UNCHANGED <<ptab, launched>>
           \/ /\ ptab[p] = "other"
              /\ StopFailed(t, call[t], "signal")
              /\ UNCHANGED <<ptab, launched>>
           \/ /\ PidExists(p)
              /\ call' = [call EXCEPT ![t] = c]
              /\ UNCHANGED <<ptab, pidFile, launched>>
           \/ /\ ptab[p] = "child"
              /\ ptab' = [ptab EXCEPT ![p] = "childZ"]
              /\ call' = [call EXCEPT ![t] = c]
              /\ UNCHANGED <<pidFile, launched>>
           \/ /\ ptab[p] \in {"child", "other"}
              /\ ptab' = [ptab EXCEPT ![p] = "free"]
              /\ call' = [u \in Threads |-> Forget(IF u = t THEN c ELSE call[u], p)]
              /\ launched' = IF launched = p THEN 0 ELSE launched
              /\ UNCHANGED pidFile
    /\ UNCHANGED <<ptrFile, logs, jar, believed, tracked>>
    /\ UNCHANGED <<dir, aux>>

\* lines 190-193: clean up the PID file, return success
SpClean(t) ==
    /\ call[t].pc = "sp_clean"
    /\ IF pidFile = NoFile
       THEN /\ call' = [call EXCEPT ![t] = Return(call[t], "ok")]
            /\ believed' = FALSE
            /\ UNCHANGED pidFile
       ELSE \/ /\ pidFile' = NoFile
               /\ call' = [call EXCEPT ![t] =
                     Return([call[t] EXCEPT !.removed = pidFile], "ok")]
               /\ believed' = FALSE
            \/ /\ StopFailed(t, call[t], "unlink")
               /\ UNCHANGED believed
    /\ UNCHANGED <<ptab, ptrFile, logs, jar, tracked, launched>>
    /\ UNCHANGED <<dir, aux>>

Env == \E p \in Pids : ProcExit(p) \/ Reap(p) \/ OtherSpawn(p)

Step(t) ==
    \/ IrClean(t)
    \/ StLaunch(t) \/ StPid(t) \/ StPtr(t)
    \/ SpRead(t) \/ SpTerm(t) \/ SpPoll(t) \/ SpCheck(t) \/ SpKill(t) \/ SpClean(t)

Next ==
    \/ \E t \in Callers, sid \in ServerIds :
          \/ IsRunning(t, sid)
          \/ GetServerStatus(t, sid)
          \/ StartServer(t, sid)
          \/ StopServer(t, sid)
    \/ \E t \in Callers : Step(t)
    \/ Env

Spec == Init /\ [][Next]_vars

\* a call that has begun runs to its end: the caller keeps executing it
FairSpec == Spec /\ \A t \in Callers : WF_vars(Step(t))

TypeOK ==
    /\ ptab \in [Pids -> {"free", "child", "childZ", "other"}]
    /\ pidFile \in {NoFile, Garbage} \cup Pids
    /\ ptrFile \in {NoFile, Garbage} \cup (1..MaxLogs)
    /\ logs \in 0..MaxLogs
    /\ \A t \in Threads : call[t].polls \in 0..MaxPolls
\* ---------------------------------------------------------- console output
\* the lifecycle part of the state, at rest
Quiet ==
    /\ call = [t \in Threads |-> IdleCall]
    /\ believed = FALSE
    /\ tracked = FALSE
    /\ launched = 0

\* s[i:] of a Python list: a negative index counts from the end, and an
\* index beyond either end is clipped
PySliceFrom(s, i) ==
    LET start == IF i < 0
                 THEN (IF Len(s) + i < 0 THEN 0 ELSE Len(s) + i)
                 ELSE (IF i > Len(s) THEN Len(s) ELSE i)
    IN  SubSeq(s, start + 1, Len(s))

\* all_lines[-lines:] if len(all_lines) > lines else all_lines
LastLines(s, n) == IF Len(s) > n THEN PySliceFrom(s, 0 - n) ELSE s

\* the values of the lines argument: web.py passes any integer
LineCounts == (0 - 1)..(MaxLines + 1)

\* the file the pointer file names exists
TargetExists == ptrFile \in 1..logs

\* the running server writes one more line to its console log
LogWrite(k) ==
    /\ k \in 1..logs
    /\ Len(logText[k]) < MaxLines
    /\ logText' = [logText EXCEPT ![k] = Append(@, Len(@) + 1)]
    /\ UNCHANGED <<ptab, pidFile, ptrFile, logs, jar, call, believed,
                   tracked, launched, dir, extra, backups, clock>>

GetConsoleOutput(t, sid, n) ==
    /\ call[t].pc = "idle"
    /\ LET c == [NewCall("console", sid) EXCEPT !.n = n]
       IN  IF sid \notin Configured
           THEN call' = [call EXCEPT ![t] = NotFound(c)]
           ELSE IF ptrFile = NoFile \/ ~TargetExists
           THEN \/ call' = [call EXCEPT ![t] = Return(c, "lines")]
                \/ /\ ptrFile # NoFile
                   /\ call' = [call EXCEPT ![t] =
                         Fail([c EXCEPT !.out = <<ErrorLine>>], "read")]
           ELSE \/ call' = [call EXCEPT ![t] = Return(
                       [c EXCEPT !.text = logText[ptrFile],
                                 !.out = LastLines(logText[ptrFile], n)],
                       "lines")]
                \/ call' = [call EXCEPT ![t] =
                       Fail([c EXCEPT !.out = <<ErrorLine>>], "read")]
    /\ UNCHANGED <<ptab, pidFile, ptrFile, logs, jar, believed, tracked,
                   launched, dir, aux>>

\* a server that has been started some times: its logs and pointer file
ConsoleInit ==
    /\ Quiet
    /\ ptab \in [Pids -> {"free"}]
    /\ pidFile = NoFile
    /\ logs \in 0..MaxLogs
    /\ ptrFile \in {NoFile, Garbage} \cup (1..logs)
    /\ jar = TRUE
    /\ dir = TRUE
    /\ extra = {}
    /\ logText = [k \in 1..MaxLogs |-> <<>>]
    /\ backups = {}
    /\ clock = 0

ConsoleNext ==
    \/ \E k \in 1..MaxLogs : LogWrite(k)
    \/ \E t \in Callers, sid \in ServerIds, n \in LineCounts :
          GetConsoleOutput(t, sid, n)

ConsoleSpec == ConsoleInit /\ [][ConsoleNext]_vars

\* ------------------------------------------------------------------ backups
\* a file or directory name, as far as a glob pattern can tell names apart:
\* "<stem><no>.<ext>", where no = 0 stands for no number
Name(stem, ext) == [stem |-> stem, no |-> 0, ext |-> ext]

\* f'console_{timestamp}.log' of the k-th launch
ConsoleLog(k) == [stem |-> "console_", no |-> k, ext |-> "log"]

\* files the server itself keeps in its directory, as paths from <path>
ExtraFiles ==
    { <<Name("world", ""), Name("level", "dat")>>,
      <<Name("world", ""), Name("session", "pid")>>,
      <<Name("plugins", ""), Name("current", "log")>> }

PidPath == <<Name("server", "pid")>>
PtrPath == <<Name("current", "log")>>

\* the files of the server directory
ServerFiles ==
    (IF pidFile # NoFile THEN {PidPath} ELSE {})
    \cup (IF ptrFile # NoFile THEN {PtrPath} ELSE {})
    \cup (IF jar THEN {<<Name("server", "jar")>>} ELSE {})
    \cup {<<Name("logs", ""), ConsoleLog(k)>> : k \in 1..logs}
    \cup extra

\* fnmatch of a name against '*.pid' and 'current.log'
Matches(nm) ==
    \/ nm.ext = "pid"
    \/ nm = Name("current", "log")

\* shutil.ignore_patterns is asked in every directory of the tree, for
\* every entry of it
Ignored(path) == \E i \in 1..Len(path) : Matches(path[i])

Copied == {f \in ServerFiles : ~Ignored(f)}

\* f"{server_id}_{timestamp}": the text before the timestamp, and the
\* timestamp (the clock, to the second)
BackupName(sid, now) == [head |-> <<sid, "_">>, stamp |-> now]

IsPrefix(p, q) ==
    /\ Len(p) <= Len(q)
    /\ \A i \in 1..Len(p) : p[i] = q[i]

\* backup.name.startswith(f"{server_id}_")
StartsWith(nm, sid) == IsPrefix(<<sid, "_">>, nm.head)

NoFilter == "none"      \* list_backups(None)

\* entries of the backups directory that list_backups reports
Listed(sid) ==
    {b.name : b \in {e \in backups :
                        /\ e.isDir
                        /\ sid = NoFilter \/ StartsWith(e.name, sid)}}

\* the order of names as strings
Alphabet == <<"_", "alpha", "ghost">>
Rank(tok) == CHOOSE i \in 1..Len(Alphabet) : Alphabet[i] = tok
NameLess(a, b) ==
    \/ Rank(a.head[1]) < Rank(b.head[1])
    \/ a.head = b.head /\ a.stamp < b.stamp

RECURSIVE SortedReverse(_)
SortedReverse(S) ==
    IF S = {} THEN <<>>
    ELSE LET m == CHOOSE x \in S : \A y \in S : ~NameLess(x, y)
         IN  <<m>> \o SortedReverse(S \ {m})

\* entries of the backups directory left by earlier runs
OldEntries ==
    { [name |-> BackupName("ghost", 0), isDir |-> TRUE, files |-> {}],
      [name |-> BackupName("alpha", 0), isDir |-> FALSE, files |-> {}] }

Tick ==
    /\ clock < MaxClock
    /\ clock' = clock + 1
    /\ UNCHANGED <<ptab, pidFile, ptrFile, logs, jar, call, believed,
                   tracked, launched, dir, extra, logText, backups>>

CreateBackup(t, sid) ==
    /\ call[t].pc = "idle"
    /\ LET c  == [NewCall("backup", sid) EXCEPT !.before = Listed(sid)]
           nm == BackupName(sid, clock)
       IN  IF sid \notin Configured
           THEN /\ call' = [call EXCEPT ![t] = NotFound(c)]
                /\ UNCHANGED backups
           ELSE IF ~dir
           THEN /\ call' = [call EXCEPT ![t] = Return(c, "nodir")]
                /\ UNCHANGED backups
           ELSE IF \E e \in backups : e.name = nm
           THEN /\ call' = [call EXCEPT ![t] = Fail(c, "copy")]
                /\ UNCHANGED backups
           ELSE \/ /\ call' = [call EXCEPT ![t] = Return(c, "ok")]
                   /\ backups' = backups \cup
                         {[name |-> nm, isDir |-> TRUE, files |-> Copied]}
                \/ /\ call' = [call EXCEPT ![t] = Fail(c, "copy")]
                   /\ UNCHANGED backups
                \/ \E f \in Copied :
                      /\ call' = [call EXCEPT ![t] = Fail(c, "copy")]
                      /\ backups' = backups \cup
                            {[name |-> nm, isDir |-> TRUE,
                              files |-> Copied \ {f}]}
    /\ UNCHANGED <<ptab, pidFile, ptrFile, logs, jar, believed, tracked,
                   launched, dir, extra, logText, clock>>

ListBackups(t, sid) ==
    /\ call[t].pc = "idle"
    /\ call' = [call EXCEPT ![t] =
          Return([NewCall("list", sid) EXCEPT
                     !.out = SortedReverse(Listed(sid))], "lines")]
    /\ UNCHANGED <<ptab, pidFile, ptrFile, logs, jar, believed, tracked,
                   launched, dir, aux>>

\* a server directory with some of its files, and a backups directory
BackupInit ==
    /\ Quiet
    /\ ptab \in [Pids -> {"free"}]
    /\ dir \in BOOLEAN
    /\ pidFile \in {NoFile, 1}
    /\ logs \in 0..1
    /\ ptrFile \in {NoFile} \cup (1..logs)
    /\ jar \in BOOLEAN
    /\ extra \in SUBSET ExtraFiles
    /\ ~dir => (pidFile = NoFile /\ logs = 0 /\ ~jar /\ extra = {})
    /\ logText = [k \in 1..MaxLogs |-> <<>>]
    /\ backups \in SUBSET OldEntries
    /\ clock = 0

BackupNext ==
    \/ Tick
    \/ \E t \in Callers, sid \in ServerIds : CreateBackup(t, sid)
    \/ \E t \in Callers, sid \in ServerIds \cup {NoFilter} :
          ListBackups(t, sid)

BackupSpec == BackupInit /\ [][BackupNext]_vars

\* ------------------------------------------------- all operations together
\* a server is started and stopped, and meanwhile every operation is called
\* for identifiers that are not configured
ApiNext ==
    \/ \E t \in Callers, sid \in Configured :
          StartServer(t, sid) \/ StopServer(t, sid)
    \/ \E t \in Callers, sid \in ServerIds \ Configured :
          \/ IsRunning(t, sid)
          \/ GetServerStatus(t, sid)
          \/ StartServer(t, sid)
          \/ StopServer(t, sid)
          \/ CreateBackup(t, sid)
          \/ \E n \in LineCounts : GetConsoleOutput(t, sid, n)
    \/ \E t \in Callers : Step(t)

ApiSpec == Init /\ [][ApiNext]_vars

\* ------------------------------------------------------ overlapping calls
\* two request handlers of the web server call the manager for one server:
\* one stops it, the other starts it and asks whether it runs; the child
\* exits and is reaped when it will
ConcInit ==
    /\ Init
    /\ dir /\ jar
    /\ \A p \in Pids : ptab[p] = "free"

ConcNext ==
    \/ \E t \in Callers : StopServer(t, "alpha")
    \/ \E t \in Threads \ Callers :
          \/ IsRunning(t, "alpha")
          \/ StartServer(t, "alpha")
    \/ \E t \in Threads : Step(t)
    \/ \E p \in Pids : ProcExit(p) \/ Reap(p)

ConcSpec == ConcInit /\ [][ConcNext]_vars

\* the steps of is_running and of start
StartStep(t) == IrClean(t) \/ StLaunch(t) \/ StPid(t) \/ StPtr(t)

\* the one request a handler serves: a start of the server
OneStart(t) ==
    /\ call[t].op = "none"
    /\ StartServer(t, "alpha")

\* each of the two handlers serves one request
RaceNext ==
    \/ \E t \in Threads : OneStart(t) \/ StartStep(t)
    \/ \E p \in Pids : ProcExit(p) \/ Reap(p)

RaceSpec == ConcInit /\ [][RaceNext]_vars

\* ------------------------------------------------------------ properties
\* caller t has made the call o on the configured server, and it has ended
Done(t, o) ==
    /\ call[t].pc = "idle"
    /\ call[t].op = o
    /\ call[t].sid \in Configured

\* what the liveness check found, as the code of lines 75-78 classifies it
SawRunning(c) == c.seen \in {"child", "other"}
SawStopped(c) == c.seen \in {"nofile", "garbage", "free", "childZ"}

\* C1: with a PID file on the disk, is_running returns True only when the
\* content is a PID whose process is in the table and is no zombie, and it
\* then leaves the file as it was; when the content does not parse, or the
\* process is missing or a zombie, it returns False with the file deleted.
C1_IsRunningRepairs ==
    \A t \in Threads :
        (Done(t, "is_running") /\ call[t].prePid # NoFile) =>
            /\ call[t].result = "true" =>
                  /\ call[t].prePid \in Pids
                  /\ call[t].seen \in {"child", "other"}
                  /\ pidFile = call[t].prePid
            /\ call[t].seen \in {"garbage", "free", "childZ"} =>
                  call[t].result # "true"
            /\ call[t].result = "false" => pidFile = NoFile

C1_Witness ==
    \E t \in Threads :
        /\ Done(t, "is_running")
        /\ call[t].prePid \in Pids
        /\ call[t].seen = "childZ"
        /\ call[t].result = "false"
        /\ pidFile = NoFile

\* C2: after a start that returned success, with no stop or start call
\* since, is_running returns True exactly when the process that this start
\* launched is alive, and when it returns False the PID file is deleted.
C2_RunningIffLaunchedAlive ==
    \A t \in Threads :
        (Done(t, "is_running") /\ tracked
            /\ call[t].result \in {"true", "false"}) =>
            /\ (call[t].result = "true") <=> call[t].live
            /\ call[t].result = "false" => pidFile = NoFile

\* C3: between calls, the PID file exists iff the most recent start
\* returned success and no stop has returned success and no liveness check
\* has returned False since.
C3_PidFileIffBelieved ==
    (\A t \in Threads : call[t].pc = "idle") =>
        ((pidFile # NoFile) <=> believed)

\* C3, amended: when the most recent start returned success and no stop has
\* returned success and no liveness check has returned False since, the PID
\* file exists and holds a PID.
C3_BelievedHasPidFile == believed => pidFile \in Pids

C3_Witness ==
    \E t \in Threads :
        /\ Done(t, "is_running")
        /\ call[t].result = "true"
        /\ believed
        /\ pidFile \in Pids

\* C4: a stop on a server that the liveness check reported running leaves
\* no PID file when it returns (so that the next is_running returns False),
\* whatever the child did during the call; the file operations of the call
\* themselves are taken not to fail.
C4_StopRemovesPidFile ==
    \A t \in Threads :
        (Done(t, "stop") /\ call[t].result \in {"ok", "error"}
            /\ call[t].exc \notin {"read", "unlink"}) =>
            pidFile = NoFile

StopPcs == {"sp_read", "sp_term", "sp_poll", "sp_check", "sp_kill", "sp_clean"}

\* the order and the bounds of the escalation, in a state of caller t
Escalation(t) ==
    LET c == call[t]
    IN  /\ c.polls <= MaxPolls
        /\ c.pc \in {"sp_poll", "sp_check", "sp_kill", "sp_clean"} => c.term
        /\ c.pc \in {"sp_read", "sp_term"} => (~c.term /\ ~c.kill /\ c.polls = 0)
        /\ c.pc \in {"sp_check", "sp_kill", "sp_clean"} => c.polls >= 1
        /\ c.pc \in {"sp_poll", "sp_check", "sp_kill"} => ~c.kill
        /\ c.kill => c.term

\* the steps of the escalation: the kill follows a probe that found the PID,
\* the loop is left early only when a probe did not find it, and after the
\* kill the call only deletes the PID file and ends
EscalationStep(t) ==
    LET c == call[t]
        d == call'[t]
    IN  /\ (c.pc = "sp_check" /\ d.pc = "sp_kill") => PidExists(c.pid)
        /\ (c.pc = "sp_check" /\ d.pc = "sp_clean") => ~PidExists(c.pid)
        /\ (c.pc = "sp_poll" /\ d.pc = "sp_check") =>
                (d.polls = MaxPolls \/ ~PidExists(c.pid))
        /\ (c.pc = "sp_poll" /\ d.pc \in StopPcs) =>
                /\ d.pc \in {"sp_poll", "sp_check"}
                /\ d.polls \in {c.polls, c.polls + 1}
                /\ d.pc = "sp_check" => d.polls = c.polls + 1
        /\ (c.pc = "sp_kill" /\ d.kill) => d.pc = "sp_clean"
        /\ (c.pc = "sp_clean") => d.pc \in {"sp_clean", "idle"}

\* C5: stop sends the graceful signal first, then probes the PID at most 30
\* times, sends the kill only after those probes and only when the PID is
\* still in the table, then waits once, deletes the PID file and ends; every
\* stop that has begun returns.
C5_BoundedEscalation ==
    /\ [](\A t \in Threads : Escalation(t))
    /\ [][\A t \in Threads : EscalationStep(t)]_vars
    /\ \A t \in Callers : (call[t].pc \in StopPcs) ~> (call[t].pc = "idle")

C5_Witness ==
    \E t \in Threads :
        /\ call[t].op = "stop"
        /\ call[t].pc = "sp_clean"
        /\ call[t].polls = MaxPolls
        /\ call[t].kill
        /\ PidExists(call[t].pid)

\* C6: a start on a server that the liveness check reports running returns
\* AlreadyRunning, launches nothing and leaves the PID file, the pointer
\* file and the logs as they were.
C6_StartWhileRunning ==
    \A t \in Threads :
        (Done(t, "start") /\ SawRunning(call[t])) =>
            /\ call[t].result = "already"
            /\ call[t].spawnPid = 0
            /\ pidFile = call[t].prePid
            /\ ptrFile = call[t].prePtr
            /\ logs = call[t].preLogs

C6_Witness ==
    \E t \in Threads :
        /\ Done(t, "start")
        /\ call[t].result = "already"
        /\ call[t].prePid \in Pids
        /\ ptab[call[t].prePid] = "child"

\* C7: when start has spawned a child, the PID file holds the PID of that
\* child when start returns, with success or with failure.
C7_SpawnedIsRecorded ==
    \A t \in Threads :
        (Done(t, "start") /\ call[t].spawnPid # 0) =>
            pidFile = call[t].spawnPid

\* C8: when start returns a failure from an exception of the launch
\* sequence, that call has written neither the PID file nor the pointer
\* file.
C8_FailedStartWritesNothing ==
    \A t \in Threads :
        (Done(t, "start") /\ call[t].result = "error") =>
            /\ pidFile = NoFile
            /\ ptrFile = call[t].prePtr

\* C8, amended: a failure in creating the log or in spawning has written
\* neither file; a failure in writing the PID file has not written the
\* pointer file and leaves the PID file absent or cut short; a failure in
\* writing the pointer file comes after the PID file was written with the
\* PID of the child.
C8_FailedStartByStage ==
    \A t \in Threads :
        (Done(t, "start") /\ call[t].result = "error") =>
            /\ call[t].exc \in {"log", "spawn"} =>
                  /\ pidFile = NoFile
                  /\ ptrFile = call[t].prePtr
                  /\ call[t].spawnPid = 0
            /\ call[t].exc = "pidfile" =>
                  /\ pidFile \in {NoFile, Garbage}
                  /\ ptrFile = call[t].prePtr
            /\ call[t].exc = "ptrfile" =>
                  /\ pidFile = call[t].spawnPid
                  /\ ptrFile \in {call[t].prePtr, Garbage}

C8_Witness ==
    \E t \in Threads :
        /\ Done(t, "start")
        /\ call[t].result = "error"
        /\ call[t].exc = "spawn"
        /\ call[t].prePid \in Pids
        /\ call[t].prePtr \in 1..MaxLogs
        /\ ptrFile = call[t].prePtr
        /\ logs = call[t].preLogs + 1

\* C9: when reading the PID file, probing the process or sending a signal
\* fails in stop, the call returns a failure (it does not raise) and the
\* PID file is as it was before the call.
C9_FailedStopKeepsPidFile ==
    \A t \in Threads :
        (Done(t, "stop") /\ call[t].exc \in {"read", "probe", "signal"}) =>
            /\ call[t].result = "error"
            /\ call[t].prePid \in Pids
            /\ pidFile = call[t].prePid

C9_Witness ==
    \E t \in Threads :
        /\ Done(t, "stop")
        /\ call[t].exc = "signal"
        /\ call[t].term
        /\ ~call[t].kill
        /\ pidFile = call[t].pid

\* C10: a stop on a server that is not running returns NotRunning, sends no
\* signal and changes no file, whether the PID file is absent, unparsable,
\* or names a missing process or a zombie.
C10_StopNotRunningNoChange ==
    \A t \in Threads :
        (Done(t, "stop") /\ SawStopped(call[t]) /\ call[t].result # "raise") =>
            /\ call[t].result = "notrunning"
            /\ ~call[t].term /\ ~call[t].kill
            /\ pidFile = call[t].prePid
            /\ ptrFile = call[t].prePtr
            /\ logs = call[t].preLogs

\* C10, amended: such a stop returns NotRunning, sends no signal and leaves
\* the pointer file and the logs as they were; the only file it changes is
\* a stale PID file, which the liveness check deletes.
C10_StopNotRunningOnlyRepairs ==
    \A t \in Threads :
        (Done(t, "stop") /\ SawStopped(call[t]) /\ call[t].result # "raise") =>
            /\ call[t].result = "notrunning"
            /\ ~call[t].term /\ ~call[t].kill
            /\ pidFile = NoFile
            /\ ptrFile = call[t].prePtr
            /\ logs = call[t].preLogs

C10_Witness ==
    \E t \in Threads :
        /\ Done(t, "stop")
        /\ call[t].result = "notrunning"
        /\ call[t].seen = "childZ"
        /\ call[t].prePid \in Pids
        /\ pidFile = NoFile

\* C11: a crash is found lazily and repaired once. After a start that
\* returned success the PID file stays whatever the process does, until a
\* liveness check; the first is_running after the launched process has
\* exited returns False with the file deleted; an is_running that finds no
\* PID file returns False and changes nothing.
C11_LazyIdempotentRepair ==
    \A t \in Threads :
        /\ (Done(t, "start") /\ call[t].result = "ok") =>
              pidFile = call[t].spawnPid
        /\ (Done(t, "is_running") /\ tracked /\ ~call[t].live
               /\ call[t].prePid # NoFile
               /\ call[t].result \in {"true", "false"}) =>
              (call[t].result = "false" /\ pidFile = NoFile)
        /\ (Done(t, "is_running") /\ call[t].prePid = NoFile) =>
              /\ call[t].result = "false"
              /\ pidFile = NoFile
              /\ ptrFile = call[t].prePtr
              /\ logs = call[t].preLogs

\* C13: a start on a configured server that is not running and whose jar
\* is absent returns MissingArtifact, launches no process and writes no PID
\* file, no pointer file and no log.
C13_MissingArtifact ==
    \A t \in Threads :
        (Done(t, "start") /\ SawStopped(call[t]) /\ ~jar
            /\ call[t].exc # "ir_unlink") =>
            /\ call[t].result = "nojar"
            /\ call[t].spawnPid = 0
            /\ pidFile = NoFile
            /\ ptrFile = call[t].prePtr
            /\ logs = call[t].preLogs

\* C15: start, stop and is_running never raise to the caller.
C15_NeverRaises ==
    \A t \in Threads :
        (call[t].op \in {"start", "stop", "is_running"}) =>
            call[t].result # "raise"

\* C19: with non-overlapping calls, at most one child launched by start is
\* alive at any time.
C19_AtMostOneChild ==
    Cardinality({p \in Pids : ptab[p] = "child"}) <= 1

\* C20: stop decides as is_running does: a probe of its loop sends it
\* round the loop again, and the final probe sends it on to the kill, only
\* when the process is alive by the test of is_running, never when it is a
\* zombie.
C20_StopUsesLivenessCriterion ==
    [][\A t \in Threads :
          /\ (call[t].pc = "sp_poll" /\ call'[t].pc = "sp_poll"
                 /\ call'[t].polls = call[t].polls + 1) =>
                IsAlive(ptab[call[t].pid])
          /\ (call[t].pc = "sp_check" /\ call'[t].pc = "sp_kill") =>
                IsAlive(ptab[call[t].pid])]_vars

\* C14: for every maxLines >= 0, get_console_output returns exactly the
\* last min(K, maxLines) lines of the K lines of the active log, in their
\* original order.
C14_ConsoleTail ==
    \A t \in Threads :
        (Done(t, "console") /\ call[t].result = "lines" /\ call[t].n >= 0) =>
            LET K == Len(call[t].text)
                m == IF K < call[t].n THEN K ELSE call[t].n
            IN  /\ Len(call[t].out) = m
                /\ \A i \in 1..m : call[t].out[i] = call[t].text[K - m + i]

\* C16: after a successful create_backup(id), list_backups(id) has exactly
\* one entry that was not there before the call, its name starts with
\* "<id>_", and the snapshot holds every file of the server directory
\* except the PID file and the pointer file.
C16_BackupSnapshot ==
    \A t \in Threads :
        (Done(t, "backup") /\ call[t].result = "ok") =>
            LET new == Listed(call[t].sid) \ call[t].before
            IN  /\ Cardinality(new) = 1
                /\ \A nm \in new :
                      /\ StartsWith(nm, call[t].sid)
                      /\ \E b \in backups :
                            /\ b.name = nm
                            /\ b.files = ServerFiles \ {PidPath, PtrPath}

\* C12: a call with an identifier that is not configured returns at once:
\* not-found from start, stop and create_backup, null from
\* get_server_status and get_console_output, false from is_running; it
\* changes no file or directory, launches no process and sends no signal.
C12_UnconfiguredIsInert ==
    [][\A t \in Threads :
          (call'[t] # call[t] /\ call'[t].op # "none"
              /\ call'[t].sid \notin Configured) =>
              /\ call'[t].pc = "idle"
              /\ call'[t].op \in {"start", "stop", "backup"} =>
                    call'[t].result = "notfound"
              /\ call'[t].op \in {"status", "console"} =>
                    call'[t].result = "null"
              /\ call'[t].op = "is_running" => call'[t].result = "false"
              /\ call'[t].spawnPid = 0
              /\ ~call'[t].term /\ ~call'[t].kill
              /\ UNCHANGED <<ptab, pidFile, ptrFile, logs, jar, dir, extra,
                             logText, backups>>]_vars

\* a live server with its PID file, and a stop for an unknown identifier
\* that has returned not-found
C12_Witness ==
    \E t \in Threads :
        /\ call[t].pc = "idle"
        /\ call[t].op = "stop"
        /\ call[t].sid \notin Configured
        /\ call[t].result = "notfound"
        /\ pidFile \in Pids
        /\ ptab[pidFile] = "child"

\* C17: nothing but its own liveness check guards a start. A start is
\* refused as already running only when its own check found a live process,
\* whatever another call is doing; a start that returns success has spawned
\* a child of its own. So two overlapping starts can both see the server
\* stopped, both spawn and both succeed.
C17_StartGuardedOnlyByCheck ==
    \A t \in Threads :
        /\ (Done(t, "start") /\ call[t].result = "already") =>
              SawRunning(call[t])
        /\ (call[t].op = "start"
               /\ call[t].pc \in {"st_launch", "st_pid", "st_ptr"}) =>
              SawStopped(call[t])
        /\ (Done(t, "start") /\ call[t].result = "ok") =>
              call[t].spawnPid \in Pids

\* both starts saw the server stopped, both returned success, their two
\* children are alive and the PID file records one of them
C17_Witness ==
    /\ \A t \in Threads :
          /\ Done(t, "start")
          /\ call[t].result = "ok"
          /\ call[t].seen = "nofile"
          /\ ptab[call[t].spawnPid] = "child"
    /\ call[1].spawnPid # call[2].spawnPid
    /\ pidFile \in {call[1].spawnPid, call[2].spawnPid}

\* C18: stop deletes the PID file only while it records the PID that this
\* stop has signalled.
C18_StopRemovesOwnPidFile ==
    \A t \in Threads :
        (call[t].op = "stop" /\ call[t].removed \in Pids) =>
            call[t].removed = call[t].pid

====
